---- MODULE Spec2Model ----
(***************************************************************************)
(* Model of snipr's VideoRecordingService (services/video_recording.py):   *)
(* the recording state machine that supervises one FFmpeg encoder process. *)
(* The UI thread calls start_recording_*, stop_recording and               *)
(* cancel_recording; stop_recording hands the process to a background      *)
(* thread (_stop_worker) which posts its result to the GLib idle queue.    *)
(* The encoder processes and the files they write are the environment.     *)
(***************************************************************************)
EXTENDS Integers, Sequences, FiniteSets, TLC

\* ---------------------------------------------------------------- bounds
\* Number of start calls that get past the guard of _start_recording.
MaxJobs == 2
\* Ticks of the 100 ms duration timer that are counted.
MaxTicks == 1

\* A job is one accepted start call. Its number names its FFmpeg process, its
\* duration timer and its _stop_worker thread; the number of a job of which
\* nothing is left (no process, no thread, no timer) is used again.
Jobs == 1..MaxJobs
\* Output paths, one per second of wall clock in which a start was accepted.
Paths == 1..MaxJobs

\* self._process is None / self._current_path is None / self._timer_id is None
NoProcess == 0
NoPath == 0
NoTimer == 0

\* models/recording_state.py
RecordingState == {"Idle", "Preparing", "Recording", "Stopping", "Completed", "Failed"}

VARIABLES
    state,          \* self._state
    process,        \* self._process: the job whose Popen handle is held, or NoProcess
    current_path,   \* self._current_path
    duration,       \* self._duration_seconds, in ticks of 0.1 s
    timer_id,       \* self._timer_id
    timers,         \* live GLib timeout sources (one per _start_duration_timer)
    njobs,          \* number of start calls accepted so far
    jobPath,        \* job -> output path on the command line of its FFmpeg
    enc,            \* job -> its FFmpeg process: "none" | "starting" | "writing"
    linked,         \* jobs whose FFmpeg holds the file that is now at its path
    files,          \* path -> "absent" | "empty" | "data"
    worker,         \* job -> its _stop_worker thread
    idleQueue,      \* GLib idle queue: jobs whose worker callback is pending
    nCompleted,     \* job -> on_recording_completed calls made for the job
    nFailed,        \* job -> on_recording_failed calls made for the job
    now,            \* datetime.now() of the latest accepted start, seconds
    fired,          \* the callbacks the latest step invoked, in order
    args,           \* the arguments and surroundings of a call of one of the
                    \* program's functions (detector, factory, capture, command)
    ret,            \* what that call returned
    portal,         \* a PortalScreenCapture at work: the call in progress, its
                    \* bus subscriptions, timeout sources and the portal's answers
    pipewire_node_id, \* self._pipewire_node_id
    main_window     \* the MainWindow (ui/main_window.py) and the application's quit

vars == <<state, process, current_path, duration, timer_id, timers, njobs,
          jobPath, enc, linked, files, worker, idleQueue,
          nCompleted, nFailed, now, fired, args, ret, portal,
          pipewire_node_id, main_window>>

\* The supervisor's own fields.
service == <<state, process, current_path, duration, timer_id>>
\* The environment: processes, files, threads, queue, clock.
world == <<timers, njobs, jobPath, enc, linked, files, worker, idleQueue, now>>
counts == <<nCompleted, nFailed>>
\* What the lifecycle of a recording leaves alone: a function call studied
\* on its own, the portal backend, the stored PipeWire node, and the window.
call == <<args, ret, portal, pipewire_node_id, main_window>>
\* The portal backend as PortalScreenCapture.__init__ leaves it.
NoPortal == [fn |-> "none", pc |-> "idle", id |-> 0, subs |-> {}, timeouts |-> {},
             sent |-> {}, unheard |-> {},
             inbox |-> [code |-> -1, payload |-> FALSE],
             received |-> [code |-> -1, payload |-> FALSE],
             outcome |-> "none"]
NoArgs == [fn |-> "none"]
\* Python's None, where a string is expected.
None == "<None>"
NoRet == [fn |-> "none"]
\* The main window before do_activate has built it.
NoMainWindow == [fn |-> "none"]

\* ------------------------------------------------------------- callbacks
NoCb == [cb |-> "none", st |-> "", path |-> NoPath, msg |-> "", dur |-> 0]
StateCb(s) == [NoCb EXCEPT !.cb = "state_changed", !.st = s]
DurationCb(d) == [NoCb EXCEPT !.cb = "duration_changed", !.dur = d]
CompletedCb(p) == [NoCb EXCEPT !.cb = "recording_completed", !.path = p]
FailedCb(m) == [NoCb EXCEPT !.cb = "recording_failed", !.msg = m]

MsgStart == "Failed to start recording"
MsgExit == "FFmpeg exited with code"
MsgTimeout == "Recording stop timed out"
MsgError == "communicate error"

\* Faulty variant of _set_state below: it notifies without comparing.
SetStateCbsAlways(from, s) == <<StateCb(s)>>

\* _set_state: the callbacks it invokes when the state is set to s.
SetStateCbs(from, s) == IF from # s THEN <<StateCb(s)>> ELSE <<>>

\* A _stop_worker thread: where it is, which callback it posts, and the
\* locals the callback closes over (returncode, file_path, file_size). Kept
\* beside them, for the properties: the path of the job's own output and
\* the size of the file there at the moment the worker looked.
NoWorker == [pc |-> "none", kind |-> "none", returncode |-> 0,
             file_path |-> NoPath, file_size |-> -1,
             own_path |-> NoPath, own_size |-> -1]

\* os.path.getsize(p) if p and os.path.exists(p) else -1
SizeOf(p) == IF p = NoPath \/ files[p] = "absent" THEN -1
             ELSE IF files[p] = "empty" THEN 0 ELSE 1

Alive(j) == enc[j] # "none"

\* Nothing is left of job j.
Free(j) == enc[j] = "none" /\ worker[j].pc = "none" /\ j \notin timers /\ process # j

\* The service as __init__ leaves it, and nothing launched yet.
ServiceInit ==
    /\ state = "Idle"
    /\ process = NoProcess
    /\ current_path = NoPath
    /\ duration = 0
    /\ timer_id = NoTimer
    /\ timers = {}
    /\ njobs = 0
    /\ jobPath = [j \in Jobs |-> NoPath]
    /\ enc = [j \in Jobs |-> "none"]
    /\ linked = {}
    /\ files = [p \in Paths |-> "absent"]
    /\ worker = [j \in Jobs |-> NoWorker]
    /\ idleQueue = <<>>
    /\ nCompleted = [j \in Jobs |-> 0]
    /\ nFailed = [j \in Jobs |-> 0]
    /\ now = 0
    /\ fired = <<>>

Init ==
    /\ ServiceInit
    /\ portal = NoPortal
    /\ main_window = NoMainWindow
    /\ pipewire_node_id = None
    /\ args = NoArgs
    /\ ret = NoRet

\* ------------------------------------------------------ start_recording_*
\* start_recording_region, start_recording_fullscreen and
\* start_recording_window all go through _start_recording; they differ in the
\* region they pass, which only the FFmpeg command line depends on.
\* What the platform does to an accepted start: everything works, the temp
\* directory cannot be created (mkdir raises, outside the try block), or
\* Popen raises (inside the try block).
StartOutcomes == {"ok", "mkdir_fail", "spawn_fail"}

\* Faulty variants of the guard below (a state left out of the tuple), used
\* to test that the properties of start depend on it.
StartIgnoredWithoutStopping == {"Recording", "Preparing"}
StartIgnoredWithoutPreparing == {"Recording", "Stopping"}

\* The guard of _start_recording: the states in which a start is ignored.
StartIgnored == {"Recording", "Preparing", "Stopping"}

\* datetime.now() to the second: the second of the latest accepted start, or
\* a later one.
Timestamps == IF now = 0 THEN {1} ELSE {now, now + 1}

StartRecording(outcome, t) ==
    /\ IF state \in StartIgnored
       THEN /\ outcome = "ok"
            /\ t = now + 1
            /\ fired' = <<>>
            /\ UNCHANGED <<service, world, counts>>
       ELSE /\ njobs < MaxJobs
            /\ LET j == CHOOSE i \in Jobs : Free(i) /\ \A k \in Jobs : Free(k) => i <= k IN
               /\ njobs' = njobs + 1
               /\ nCompleted' = [nCompleted EXCEPT ![j] = 0]
               /\ CASE outcome = "mkdir_fail" ->
                       /\ t = now + 1
                       /\ state' = "Preparing"
                       /\ fired' = SetStateCbs(state, "Preparing")
                       /\ nFailed' = [nFailed EXCEPT ![j] = 0]
                       /\ UNCHANGED <<process, current_path, duration, timer_id,
                                      timers, jobPath, enc, now>>
                    [] outcome = "spawn_fail" ->
                       /\ now' = t
                       /\ current_path' = t
                       /\ state' = "Failed"
                       /\ fired' = SetStateCbs(state, "Preparing")
                                   \o SetStateCbs("Preparing", "Failed")
                                   \o <<FailedCb(MsgStart)>>
                       /\ nFailed' = [nFailed EXCEPT ![j] = 1]
                       /\ UNCHANGED <<process, duration, timer_id, timers, jobPath, enc>>
                    [] outcome = "ok" ->
                       /\ now' = t
                       /\ current_path' = t
                       /\ jobPath' = [jobPath EXCEPT ![j] = t]
                       /\ process' = j
                       /\ enc' = [enc EXCEPT ![j] = "starting"]
                       /\ duration' = 0
                       /\ state' = "Recording"
                       /\ timer_id' = j
                       /\ timers' = timers \cup {j}
                       /\ fired' = SetStateCbs(state, "Preparing")
                                   \o SetStateCbs("Preparing", "Recording")
                       /\ nFailed' = [nFailed EXCEPT ![j] = 0]
               /\ UNCHANGED <<linked, files, worker, idleQueue>>

\* _stop_duration_timer
StopTimer(ts) == IF timer_id # NoTimer THEN ts \ {timer_id} ELSE ts

\* --------------------------------------------------------- stop_recording
\* Faulty variant of the guard below: the state is not looked at.
StopIgnoredWithoutState(s, p) == p = NoProcess

\* The guard of stop_recording: when the call returns at once.
StopIgnored(s, p) == p = NoProcess \/ s # "Recording"

StopRecording ==
    /\ IF StopIgnored(state, process)
       THEN /\ fired' = <<>>
            /\ UNCHANGED <<service, world, counts>>
       ELSE /\ state' = "Stopping"
            /\ fired' = SetStateCbs(state, "Stopping")
            /\ timers' = StopTimer(timers)
            /\ timer_id' = NoTimer
            /\ process' = NoProcess
            /\ worker' = [worker EXCEPT ![process] =
                            [NoWorker EXCEPT !.pc = "communicate",
                                             !.own_path = jobPath[process]]]
            /\ UNCHANGED <<current_path, duration, njobs, jobPath, enc,
                           linked, files, idleQueue, now, counts>>

\* ------------------------------------------------------- cancel_recording
\* proc.kill(); proc.wait(timeout=5) on the held process handle.
KillHeld(e) == IF process # NoProcess THEN [e EXCEPT ![process] = "none"] ELSE e

\* Faulty variant of the removal below: the file is left where it is.
RemoveNothing(f) == f

\* os.remove(self._current_path) when os.path.exists(self._current_path).
\* (The OSError the code tolerates is not modelled: the file is the
\* program's own, in its own temp directory.)
RemoveCurrent(f) == IF current_path # NoPath
                    THEN [f EXCEPT ![current_path] = "absent"] ELSE f

CancelRecording ==
    /\ timers' = StopTimer(timers)
    /\ timer_id' = NoTimer
    /\ enc' = KillHeld(enc)
    /\ jobPath' = [j \in Jobs |-> IF enc'[j] = "none" THEN NoPath ELSE jobPath[j]]
    /\ process' = NoProcess
    /\ files' = RemoveCurrent(files)
    /\ linked' = {j \in linked : enc'[j] # "none" /\ files'[jobPath[j]] # "absent"}
    /\ state' = "Idle"
    /\ fired' = SetStateCbs(state, "Idle")
    /\ UNCHANGED <<current_path, duration, njobs, worker, idleQueue, now, counts>>

\* ------------------------------------------- _start_duration_timer.tick
\* Faulty variant of the test below: the state is not looked at.
TickDeliversAlways(s) == TRUE

\* if self._state == RecordingState.RECORDING
TickDelivers(s) == s = "Recording"

\* One run of tick, with the duration counted up to max ticks.
TimerTickUpTo(t, max) ==
    /\ t \in timers
    /\ IF TickDelivers(state)
       THEN /\ duration < max
            /\ duration' = duration + 1
            /\ fired' = <<DurationCb(duration + 1)>>
            /\ UNCHANGED timers
       ELSE /\ timers' = timers \ {t}
            /\ fired' = <<>>
            /\ UNCHANGED duration
    /\ UNCHANGED <<state, process, current_path, timer_id, njobs, jobPath, enc,
                   linked, files, worker, idleQueue, now, counts>>

TimerTick(t) == TimerTickUpTo(t, MaxTicks)

\* ------------------------------------------------ the FFmpeg processes
\* FFmpeg opens (creates or truncates, -y) its output file some time after
\* it was spawned.
EncoderOpen(j) ==
    /\ enc[j] = "starting"
    /\ enc' = [enc EXCEPT ![j] = "writing"]
    /\ files' = [files EXCEPT ![jobPath[j]] = "empty"]
    /\ linked' = linked \cup {j}
    /\ fired' = <<>>
    /\ UNCHANGED <<service, timers, njobs, jobPath, worker, idleQueue,
                   now, counts>>

\* FFmpeg writes frames; they reach the path only while its file is still
\* the one linked there.
EncoderWrite(j) ==
    /\ enc[j] = "writing"
    /\ j \in linked
    /\ files[jobPath[j]] = "empty"
    /\ files' = [files EXCEPT ![jobPath[j]] = "data"]
    /\ fired' = <<>>
    /\ UNCHANGED <<service, timers, njobs, jobPath, enc, linked, worker,
                   idleQueue, now, counts>>

\* ------------------------------------------- stop_recording._stop_worker
\* Faulty variant of the handoff below: the callback is never queued.
IdleAddLost(q, j) == q

\* GLib.idle_add(callback): the worker's callback is queued for the UI thread.
IdleAdd(q, j) == Append(q, j)

\* proc.communicate(input=b"q", timeout=10) returns: FFmpeg has exited (its
\* exit is observed here, with its exit code). The worker reads returncode,
\* self._current_path and the file's size and posts _on_done.
ExitCodes == {0, 1}

WorkerResult(j, code) ==
    [worker[j] EXCEPT !.pc = "queued", !.kind = "done", !.returncode = code,
                      !.file_path = current_path,
                      !.file_size = SizeOf(current_path),
                      !.own_size = SizeOf(jobPath[j])]

WorkerFinish(j, code) ==
    /\ worker[j].pc = "communicate"
    /\ Alive(j)
    /\ enc' = [enc EXCEPT ![j] = "none"]
    /\ jobPath' = [jobPath EXCEPT ![j] = NoPath]
    /\ linked' = linked \ {j}
    /\ worker' = [worker EXCEPT ![j] = WorkerResult(j, code)]
    /\ idleQueue' = IdleAdd(idleQueue, j)
    /\ fired' = <<>>
    /\ UNCHANGED <<service, timers, njobs, files, now, counts>>

\* Faulty variant of the kill below: the process is left running.
TimeoutNoKill(e, j) == e

\* subprocess.TimeoutExpired: proc.kill(); proc.wait(); post _on_timeout.
TimeoutKill(e, j) == [e EXCEPT ![j] = "none"]

WorkerTimeout(j) ==
    /\ worker[j].pc = "communicate"
    /\ Alive(j)
    /\ enc' = TimeoutKill(enc, j)
    /\ jobPath' = [i \in Jobs |-> IF enc'[i] = "none" THEN NoPath ELSE jobPath[i]]
    /\ linked' = {i \in linked : enc'[i] # "none"}
    /\ worker' = [worker EXCEPT ![j].pc = "queued", ![j].kind = "timeout"]
    /\ idleQueue' = IdleAdd(idleQueue, j)
    /\ fired' = <<>>
    /\ UNCHANGED <<service, timers, njobs, files, now, counts>>

\* Any other exception of communicate: _close_pipes(proc); post _on_error.
\* The process is neither killed nor waited for: it may have exited or not.
WorkerError(j, exited) ==
    /\ worker[j].pc = "communicate"
    /\ Alive(j)
    /\ enc' = IF exited THEN [enc EXCEPT ![j] = "none"] ELSE enc
    /\ jobPath' = IF exited THEN [jobPath EXCEPT ![j] = NoPath] ELSE jobPath
    /\ linked' = IF exited THEN linked \ {j} ELSE linked
    /\ worker' = [worker EXCEPT ![j].pc = "queued", ![j].kind = "error"]
    /\ idleQueue' = IdleAdd(idleQueue, j)
    /\ fired' = <<>>
    /\ UNCHANGED <<service, timers, njobs, files, now, counts>>

\* ------------------------- _on_done / _on_timeout / _on_error (UI thread)
\* The success test of _on_done.
IsSuccess(w) == w.returncode = 0 /\ w.file_path # NoPath /\ w.file_size > 0

\* Faulty variant of the callbacks' state change: Stopping is kept.
CallbackKeepsStopping(w) == "Stopping"

\* The state a worker's callback sets.
CallbackState(w) == IF w.kind = "done" /\ IsSuccess(w) THEN "Completed" ELSE "Failed"

\* The report a worker's callback makes.
CallbackReport(w) ==
    IF w.kind = "done"
    THEN IF IsSuccess(w) THEN CompletedCb(w.file_path) ELSE FailedCb(MsgExit)
    ELSE IF w.kind = "timeout" THEN FailedCb(MsgTimeout) ELSE FailedCb(MsgError)

IdleRun ==
    /\ idleQueue # <<>>
    /\ LET j == Head(idleQueue)
           w == worker[j]
           r == CallbackReport(w)
       IN /\ idleQueue' = Tail(idleQueue)
          /\ worker' = [worker EXCEPT ![j] = NoWorker]
          /\ state' = CallbackState(w)
          /\ fired' = SetStateCbs(state, CallbackState(w)) \o <<r>>
          /\ nCompleted' = [nCompleted EXCEPT
                              ![j] = IF r.cb = "recording_completed" THEN @ + 1 ELSE @]
          /\ nFailed' = [nFailed EXCEPT
                              ![j] = IF r.cb = "recording_failed" THEN @ + 1 ELSE @]
          /\ UNCHANGED <<process, current_path, duration, timer_id, timers, njobs,
                         jobPath, enc, linked, files, now>>

Next ==
    \/ UNCHANGED call /\ \E o \in StartOutcomes, t \in Timestamps : StartRecording(o, t)
    \/ UNCHANGED call /\ StopRecording
    \/ UNCHANGED call /\ CancelRecording
    \/ UNCHANGED call /\ \E t \in Jobs : TimerTick(t)
    \/ UNCHANGED call /\ \E j \in Jobs : EncoderOpen(j)
    \/ UNCHANGED call /\ \E j \in Jobs : EncoderWrite(j)
    \/ UNCHANGED call /\ \E j \in Jobs, c \in ExitCodes : WorkerFinish(j, c)
    \/ UNCHANGED call /\ \E j \in Jobs : WorkerTimeout(j)
    \/ UNCHANGED call /\ \E j \in Jobs, x \in BOOLEAN : WorkerError(j, x)
    \/ UNCHANGED call /\ IdleRun

Spec == Init /\ [][Next]_vars

TypeOK ==
    /\ state \in RecordingState
    /\ process \in Jobs \cup {NoProcess}
    /\ current_path \in Paths \cup {NoPath}
    /\ duration \in 0..MaxTicks
    /\ timer_id \in Jobs \cup {NoTimer}
    /\ timers \subseteq Jobs
    /\ njobs \in 0..MaxJobs

\* ------------------------------------------------------------ properties
Range(seq) == {seq[i] : i \in 1..Len(seq)}
Reports(seq) == {c \in Range(seq) : c.cb \in {"recording_completed", "recording_failed"}}
AliveJobs == {j \in Jobs : Alive(j)}
InFlight == {j \in Jobs : worker[j].pc \in {"communicate", "queued"}}

\* A call of start_recording_region / _fullscreen / _window.
StartCall == \E o \in StartOutcomes, t \in Timestamps : StartRecording(o, t)
\* A start call that got past the guard (and so set the state to Preparing).
StartAccepted == StartCall /\ njobs' = njobs + 1
\* The worker whose callback runs next on the UI thread.
NextCallback == worker[Head(idleQueue)]

\* C1: a start_* call made while the state is Recording, Preparing or
\* Stopping changes nothing: state, process handle, current path, duration
\* and timer are as before, no encoder process is launched and no callback
\* is invoked.
C1_StartWhileBusyIsNoOp ==
    [][StartCall /\ state \in {"Recording", "Preparing", "Stopping"}
         => UNCHANGED <<service, world, counts>> /\ fired' = <<>>]_vars

\* A start call was ignored in Stopping: right after stop_recording (whose
\* state_changed callback is no longer the latest step's), with the encoder
\* and the worker where stop_recording left them.
C1_Witness ==
    /\ state = "Stopping"
    /\ fired = <<>>
    /\ \E j \in Jobs : worker[j].pc = "communicate" /\ enc[j] = "starting"
    /\ njobs < MaxJobs

\* C2: a worker callback that runs after cancel_recording was called during
\* Stopping (so that it finds the state Idle) changes nothing: the state
\* stays Idle and neither recording-completed nor recording-failed fires.
C2_CallbackAfterCancelIsNoOp ==
    [][IdleRun /\ state = "Idle" => UNCHANGED <<state, counts>> /\ fired' = <<>>]_vars

C4_AtMostOneEncoderAlive == Cardinality(AliveJobs) <= 1

\* C5: when the worker of a stopped job saw exit code 0 and the job's output
\* file with non-zero size, its callback sets Completed and fires
\* recording-completed exactly once, with the path the job's start allocated.
C5_CleanStopCompletesWithOwnPath ==
    [][IdleRun /\ NextCallback.kind = "done" /\ NextCallback.returncode = 0
              /\ NextCallback.own_size > 0
         => /\ state' = "Completed"
            /\ Reports(fired') = {CompletedCb(NextCallback.own_path)}
            /\ nCompleted'[Head(idleQueue)] = 1]_vars

\* C6: after a drain timeout the worker has killed and reaped the process
\* before its callback changes the state; the callback sets Failed and fires
\* recording-failed with the timed-out message.
C6_TimeoutKillsThenFails ==
    [][IdleRun /\ NextCallback.kind = "timeout"
         => /\ ~Alive(Head(idleQueue))
            /\ state' = "Failed"
            /\ Reports(fired') = {FailedCb(MsgTimeout)}]_vars

\* The timeout callback has just run from Stopping.
C6_Witness ==
    /\ state = "Failed"
    /\ fired = <<StateCb("Failed"), FailedCb(MsgTimeout)>>

\* C7: a stopped job ends in Completed iff FFmpeg's exit code was 0 and the
\* job's output file existed with size > 0; otherwise it ends in Failed and
\* recording-failed fires; never both callbacks for one job.
C7_CompletedIffCleanExitAndFile ==
    [][IdleRun
         => /\ state' = "Completed"
                <=> (NextCallback.kind = "done" /\ NextCallback.returncode = 0
                     /\ NextCallback.own_size > 0)
            /\ state' # "Completed"
                => state' = "Failed" /\ \E c \in Reports(fired') : c.cb = "recording_failed"
            /\ ~(nCompleted'[Head(idleQueue)] > 0 /\ nFailed'[Head(idleQueue)] > 0)]_vars

\* C8 as stated: a start call is accepted only when the state is Idle.
C8_StartAcceptedOnlyInIdle ==
    [][StartAccepted => state = "Idle"]_vars

\* C8 amended: a start call is accepted only when the state is Idle,
\* Completed or Failed; in Recording, Preparing and Stopping it is not.
C8_StartAcceptedOnlyWhenNotBusy ==
    [][StartAccepted => state \in {"Idle", "Completed", "Failed"}]_vars

\* A start was accepted without a cancel since the previous job's worker
\* reported: the previous recording's file is still at its path.
C8_Witness ==
    /\ state = "Recording"
    /\ fired = <<StateCb("Preparing"), StateCb("Recording")>>
    /\ current_path = 2
    /\ files[1] = "data"
    /\ InFlight = {}
    /\ Cardinality(AliveJobs) = 1

\* C9: stop_recording in a state other than Recording changes nothing; in
\* Recording it returns with the state Stopping, the process handed to a
\* worker that has produced no result yet.
C9_StopOnlyActsInRecording ==
    [][StopRecording
         => IF state = "Recording"
            THEN /\ state' = "Stopping"
                 /\ process' = NoProcess
                 /\ worker'[process].pc = "communicate"
                 /\ UNCHANGED <<idleQueue, counts>>
                 /\ Reports(fired') = {}
            ELSE UNCHANGED <<service, world, counts>> /\ fired' = <<>>]_vars

\* stop_recording has just returned from Recording.
C9_Witness ==
    /\ state = "Stopping"
    /\ fired = <<StateCb("Stopping")>>
    /\ \E j \in Jobs : worker[j].pc = "communicate"

\* C10: cancellation is silent: cancel_recording itself reports neither
\* recording-completed nor recording-failed, and neither does the callback
\* of a worker that was in flight when cancel_recording ran.
C10_CancelIsSilent ==
    [][/\ CancelRecording => Reports(fired') = {} /\ counts' = counts
       /\ IdleRun /\ state = "Idle" => Reports(fired') = {}]_vars

\* An accepted start call in which something raised: mkdir of the temp
\* directory, building the command line, or Popen.
StartFails ==
    /\ \E o \in StartOutcomes \ {"ok"}, t \in Timestamps : StartRecording(o, t)
    /\ njobs' = njobs + 1

\* C11: a failure during an accepted start ends with the state Failed and
\* exactly one recording-failed callback; the state is not left in Preparing
\* when the start call is over.
C11_StartFailureIsReported ==
    [][StartFails
         => /\ state' = "Failed"
            /\ Reports(fired') = {FailedCb(MsgStart)}
            /\ Len(SelectSeq(fired', LAMBDA c : c.cb = "recording_failed")) = 1]_vars

\* ------------------------------------------------------------ scheduling
\* A step of the _stop_worker thread of job j. communicate() is bounded by
\* its 10 s timeout, so a started worker always gets to post its callback.
WorkerStep(j) ==
    \/ \E c \in ExitCodes : WorkerFinish(j, c)
    \/ WorkerTimeout(j)
    \/ \E x \in BOOLEAN : WorkerError(j, x)

\* The recording service with a daemon thread that runs and a GLib main
\* loop that dispatches its idle sources.
FairSpec ==
    /\ Spec
    /\ \A j \in Jobs : WF_vars(UNCHANGED call /\ WorkerStep(j))
    /\ WF_vars(UNCHANGED call /\ IdleRun)

\* C12: once stop_recording was accepted the state eventually leaves
\* Stopping (for Completed, Failed, or Idle through cancel_recording), given
\* that the worker thread and the idle queue run; and a start call made in
\* Completed or Failed is accepted.
C12_NeverStuck ==
    /\ (state = "Stopping") ~> (state \in {"Completed", "Failed", "Idle"})
    /\ [][StartCall /\ state \in {"Completed", "Failed"} => StartAccepted]_vars

\* A worker callback has just reported Completed from Stopping, and a start
\* can still be made.
C12_Witness ==
    /\ state = "Completed"
    /\ Len(fired) = 2 /\ fired[1] = StateCb("Completed")
    /\ fired[2].cb = "recording_completed"
    /\ njobs < MaxJobs

\* The steps that run on the UI thread (the GLib main loop): the calls made
\* by the window's handlers, the duration timer and the idle callbacks.
UIStep ==
    \/ StartCall
    \/ StopRecording
    \/ CancelRecording
    \/ \E t \in Jobs : TimerTick(t)
    \/ IdleRun

\* C13: the state is written and the callbacks are invoked only by steps of
\* the UI thread; a step of a stop-worker thread leaves the service's fields
\* alone, invokes no callback and hands its result to the idle queue.
C13_SingleWriter ==
    [][/\ (state' # state \/ fired' # <<>> \/ counts' # counts) => UIStep
       /\ \A j \in Jobs : WorkerStep(j)
            => /\ UNCHANGED <<service, counts>>
               /\ fired' = <<>>
               /\ idleQueue' = Append(idleQueue, j)
               /\ worker'[j].pc = "queued"]_vars

\* A worker has just queued its callback while the state is still Stopping.
C13_Witness ==
    /\ state = "Stopping"
    /\ fired = <<>>
    /\ Len(idleQueue) = 1
    /\ worker[Head(idleQueue)].pc = "queued"
    /\ InFlight = {Head(idleQueue)}

\* ======================================================================
\* The FFmpeg command line of a start call (start_recording_region,
\* start_recording_window, start_recording_fullscreen, _build_ffmpeg_command)
\* ======================================================================
\* Widths and heights of the requested regions: 0..MaxDim, and the 101 x 151
\* of the specification's scenario.
MaxDim == 2
Dims == 0..MaxDim \cup {101, 151}
Offsets == {-1, 0, 1}

\* services/display_server.py: the values of the enum DisplayServer.
DisplayServer == {"x11", "wayland", "unknown"}

\* self._pipewire_node_id: None, or what set_pipewire_node was given.
PipewireNodes == {None, "", "42", "43"}

\* Values of $DISPLAY, as sequences of characters; Unset when not in os.environ.
Unset == <<"<unset>">>
Displays == {Unset, <<>>, <<":", "0">>, <<":", "0", ".", "0">>, <<":", "1", ".", "1">>,
             <<"h", ":", "0", ".", "0">>, <<"h", ".", "x", ":", "0", ".", "0">>,
             <<"1", ".", "2", ":", "0">>}

StartFns == {"start_recording_region", "start_recording_window",
             "start_recording_fullscreen"}

CommandArgs ==
    [fn : {"start_recording_region", "start_recording_window"},
     x : Offsets, y : Offsets, width : Dims, height : Dims,
     display_server : DisplayServer, DISPLAY : Displays]
    \cup
    [fn : {"start_recording_fullscreen"},
     x : {0}, y : {0}, width : {0}, height : {0},
     display_server : DisplayServer, DISPLAY : Displays]

\* Faulty variants of the rounding below.
EvenUpNot(n) == n
EvenDown(n) == n - (n % 2)

\* width + (width % 2): Python's % with a positive modulus is never negative.
EvenUp(n) == n + (n % 2)

\* The region start_recording_* hands to _start_recording: None (<<>>) for
\* the full screen, else (x, y, width, height) with even width and height.
RegionOf(a) ==
    IF a.fn = "start_recording_fullscreen" THEN <<>>
    ELSE <<a.x, a.y, EvenUp(a.width), EvenUp(a.height)>>

\* os.environ.get("DISPLAY", ":0")
DisplayOf(d) == IF d = Unset THEN <<":", "0">> ELSE d

\* display[:display.index(".")] if "." in display
StripScreen(d) ==
    IF \E i \in 1..Len(d) : d[i] = "."
    THEN SubSeq(d, 1, (CHOOSE i \in 1..Len(d) :
                          d[i] = "." /\ \A k \in 1..(i - 1) : d[k] # ".") - 1)
    ELSE d

Max0(n) == IF n < 0 THEN 0 ELSE n

\* _build_ffmpeg_command: the input part of the command line. video_size is
\* <<w, h>> for "-video_size wxh" and <<>> when the option is not given;
\* offset is <<x, y>> for "-i display+x,y" and <<>> for "-i display".
BuildFfmpegCommand(server, node, display, region) ==
    IF server = "wayland" /\ node # None /\ node # ""
    THEN [format |-> "pipewire", input |-> node, display |-> <<>>,
          offset |-> <<>>, video_size |-> <<>>]
    ELSE IF region # <<>>
         THEN [format |-> "x11grab", input |-> "", display |-> StripScreen(DisplayOf(display)),
               offset |-> <<Max0(region[1]), Max0(region[2])>>,
               video_size |-> <<region[3], region[4]>>]
         ELSE [format |-> "x11grab", input |-> "", display |-> StripScreen(DisplayOf(display)),
               offset |-> <<>>, video_size |-> <<>>]

\* An accepted start call builds its command line.
BuildCommand ==
    /\ args.fn \in StartFns
    /\ ret = NoRet
    /\ state \notin StartIgnored
    /\ ret' = [fn |-> "_build_ffmpeg_command", region |-> RegionOf(args),
               cmd |-> BuildFfmpegCommand(args.display_server, pipewire_node_id,
                                          args.DISPLAY, RegionOf(args))]
    /\ UNCHANGED <<args, portal, pipewire_node_id, main_window, service, world, counts, fired>>

CommandInit ==
    /\ ServiceInit
    /\ portal = NoPortal
    /\ main_window = NoMainWindow
    /\ pipewire_node_id \in PipewireNodes
    /\ args \in CommandArgs
    /\ ret = NoRet

CommandNext == BuildCommand

CommandSpec == CommandInit /\ [][CommandNext]_vars

Even(n) == n % 2 = 0
Built == ret.fn = "_build_ffmpeg_command"

\* C14: for every region or window recording request the width and height
\* handed on to the encoder are even: an odd value plus one, an even value
\* itself; they are what -video_size is given.
C14_DimensionsMadeEven ==
    Built /\ args.fn \in {"start_recording_region", "start_recording_window"}
    => /\ Even(ret.region[3]) /\ Even(ret.region[4])
       /\ ret.region[3] = IF Even(args.width) THEN args.width ELSE args.width + 1
       /\ ret.region[4] = IF Even(args.height) THEN args.height ELSE args.height + 1
       /\ ret.cmd.video_size \in {<<>>, <<ret.region[3], ret.region[4]>>}
       /\ ret.cmd.format = "x11grab" => ret.cmd.video_size # <<>>

\* The command line of a 101 x 151 window request has been built.
C14_Witness ==
    /\ Built
    /\ args.fn = "start_recording_window"
    /\ args.width = 101 /\ args.height = 151
    /\ ret.cmd.video_size = <<102, 152>>

\* The scenario of C15: a region recording started at (0, 0, 101, 151).
Scenario ==
    /\ Built
    /\ args.fn = "start_recording_region"
    /\ <<args.x, args.y, args.width, args.height>> = <<0, 0, 101, 151>>

NotSet == "<not set>"
\* Values of XDG_SESSION_TYPE and GDK_BACKEND.
TypeValues == {NotSet, "", "wayland", "x11", "WAYLAND", "Wayland", "X11", "tty",
               "wayland,x11"}
\* Values of WAYLAND_DISPLAY and of DISPLAY.
WaylandDisplays == {NotSet, "", "wayland-0"}
X11Displays == {NotSet, "", ":0"}

Environs == [XDG_SESSION_TYPE : TypeValues, GDK_BACKEND : TypeValues,
             WAYLAND_DISPLAY : WaylandDisplays, DISPLAY : X11Displays]

\* os.environ.get(name, "")
EnvGet(v) == IF v = NotSet THEN "" ELSE v
\* str.lower(), on the values above.
Lower(s) == CASE s \in {"WAYLAND", "Wayland"} -> "wayland"
              [] s = "X11" -> "x11"
              [] OTHER -> s
\* The truth value of os.environ.get(name): set and not empty.
Truthy(v) == v # NotSet /\ v # ""

\* Faulty variant of the detector: the display handles are looked at first.
GetDisplayServerHandlesFirst(e) ==
    IF Truthy(e.WAYLAND_DISPLAY) THEN "wayland"
    ELSE IF Truthy(e.DISPLAY) THEN "x11"
    ELSE IF Lower(EnvGet(e.XDG_SESSION_TYPE)) \in {"wayland", "x11"}
         THEN Lower(EnvGet(e.XDG_SESSION_TYPE))
    ELSE IF Lower(EnvGet(e.GDK_BACKEND)) \in {"wayland", "x11"}
         THEN Lower(EnvGet(e.GDK_BACKEND))
    ELSE "unknown"

\* get_display_server()
GetDisplayServer(e) ==
    LET session_type == Lower(EnvGet(e.XDG_SESSION_TYPE))
        gdk_backend == Lower(EnvGet(e.GDK_BACKEND))
    IN IF session_type = "wayland" THEN "wayland"
       ELSE IF session_type = "x11" THEN "x11"
       ELSE IF gdk_backend = "wayland" THEN "wayland"
       ELSE IF gdk_backend = "x11" THEN "x11"
       ELSE IF Truthy(e.WAYLAND_DISPLAY) THEN "wayland"
       ELSE IF Truthy(e.DISPLAY) THEN "x11"
       ELSE "unknown"

\* Faulty variant of the factory: Unknown goes to the portal.
BackendClassPortalUnlessX11(server) ==
    IF server = "x11" THEN "X11ScreenCapture" ELSE "PortalScreenCapture"

\* create_screen_capture_service: the class it instantiates.
BackendClass(server) ==
    IF server = "wayland" THEN "PortalScreenCapture" ELSE "X11ScreenCapture"

DetectFns == {"get_display_server", "create_screen_capture_service"}

\* A call of get_display_server().
GetDisplayServerCall ==
    /\ args.fn = "get_display_server"
    /\ ret = NoRet
    /\ ret' = [fn |-> "get_display_server", value |-> GetDisplayServer(args.environ),
               raised |-> FALSE]
    /\ UNCHANGED <<args, portal, pipewire_node_id, main_window, service, world, counts, fired>>

\* A call of create_screen_capture_service(). The constructor of the chosen
\* class connects to the X server or to the session bus, which may fail; the
\* exception then leaves the factory.
CreateScreenCaptureService(connects) ==
    /\ args.fn = "create_screen_capture_service"
    /\ ret = NoRet
    /\ ret' = [fn |-> "create_screen_capture_service",
               value |-> BackendClass(GetDisplayServer(args.environ)),
               raised |-> ~connects]
    /\ UNCHANGED <<args, portal, pipewire_node_id, main_window, service, world, counts, fired>>

DetectInit ==
    /\ ServiceInit
    /\ portal = NoPortal
    /\ main_window = NoMainWindow
    /\ pipewire_node_id = None
    /\ args \in [fn : DetectFns, environ : Environs]
    /\ ret = NoRet

DetectNext ==
    \/ GetDisplayServerCall
    \/ \E c \in BOOLEAN : CreateScreenCaptureService(c)

DetectSpec == DetectInit /\ [][DetectNext]_vars

\* What each signal says on its own, in the order of priority: "wayland",
\* "x11", or "" when it does not match.
Votes(e) ==
    <<IF Lower(EnvGet(e.XDG_SESSION_TYPE)) \in {"wayland", "x11"}
      THEN Lower(EnvGet(e.XDG_SESSION_TYPE)) ELSE "",
      IF Lower(EnvGet(e.GDK_BACKEND)) \in {"wayland", "x11"}
      THEN Lower(EnvGet(e.GDK_BACKEND)) ELSE "",
      IF Truthy(e.WAYLAND_DISPLAY) THEN "wayland" ELSE "",
      IF Truthy(e.DISPLAY) THEN "x11" ELSE "">>

\* C16: get_display_server returns, for every environment, the verdict of
\* the first signal that matches in the order XDG_SESSION_TYPE, GDK_BACKEND,
\* WAYLAND_DISPLAY, DISPLAY, and Unknown when none matches; it never raises;
\* XDG_SESSION_TYPE=wayland wins over a DISPLAY that is set.
C16_FirstMatchWins ==
    ret.fn = "get_display_server"
    => LET v == Votes(args.environ)
           matching == {i \in 1..4 : v[i] # ""}
       IN /\ ~ret.raised
          /\ ret.value \in DisplayServer
          /\ matching = {} => ret.value = "unknown"
          /\ matching # {}
               => ret.value = v[CHOOSE i \in matching : \A k \in matching : i <= k]
          /\ args.environ.XDG_SESSION_TYPE = "wayland" /\ args.environ.DISPLAY = ":0"
               => ret.value = "wayland"

\* The detector has answered Wayland for XDG_SESSION_TYPE=wayland although
\* GDK_BACKEND says x11 and DISPLAY is set.
C16_Witness ==
    /\ ret.fn = "get_display_server"
    /\ args.environ.XDG_SESSION_TYPE = "wayland"
    /\ args.environ.GDK_BACKEND = "x11"
    /\ args.environ.DISPLAY = ":0"
    /\ ret.value = "wayland"

\* C17: the factory chooses the portal backend exactly when the detector
\* says Wayland, and the X11 backend for X11 and for Unknown.
C17_FactoryFollowsDetector ==
    ret.fn = "create_screen_capture_service"
    => LET server == GetDisplayServer(args.environ)
       IN /\ ret.value = "PortalScreenCapture" <=> server = "wayland"
          /\ server \in {"x11", "unknown"} => ret.value = "X11ScreenCapture"

\* The factory has returned the X11 backend for an environment in which the
\* detector says Unknown.
C17_Witness ==
    /\ ret.fn = "create_screen_capture_service"
    /\ GetDisplayServer(args.environ) = "unknown"
    /\ ret.value = "X11ScreenCapture"
    /\ ~ret.raised

\* ======================================================================
\* services/screen_capture_x11.py and services/screen_capture_portal.py
\* ======================================================================
\* The screen is ScreenSize x ScreenSize pixels.
ScreenSize == 3

\* The pixel (i, j) of the framebuffer, as (red, green, blue). Every pixel
\* has its own colour and its three channels differ; the framebuffer does
\* not change.
Framebuffer(i, j) == <<i, 10 + j, 20 + i + j>>

\* The pixel positions of a w x h image, column first.
Coords(w, h) == (0..(w - 1)) \X (0..(h - 1))

\* Rectangles of at least one pixel inside the screen.
Boxes == {b \in [x : 0..(ScreenSize - 1), y : 0..(ScreenSize - 1),
                 width : 1..ScreenSize, height : 1..ScreenSize] :
            b.x + b.width <= ScreenSize /\ b.y + b.height <= ScreenSize}

\* Polygons in absolute desktop coordinates: up to MinPolygon points.
MinPolygon == 3
Vertices == {0, 1, 2} \X {0, 1, 2}
Polygons == UNION {[1..n -> Vertices] : n \in 0..MinPolygon}

Backends == {"X11ScreenCapture", "PortalScreenCapture"}

\* -------------------------------------------------- the X server and PIL
\* Faulty variant of the X server's answer below: the rectangle at the origin.
XGetImageAtOrigin(x, y, w, h) ==
    [k \in 1..(w * h) |->
        LET c == Framebuffer((k - 1) % w, (k - 1) \div w)
        IN <<c[3], c[2], c[1], 0>>]

\* self._root.get_image(x, y, width, height, ZPixmap, all planes).data: the
\* pixels of the rectangle row by row, four bytes each: blue, green, red, pad.
XGetImage(x, y, w, h) ==
    [k \in 1..(w * h) |->
        LET c == Framebuffer(x + ((k - 1) % w), y + ((k - 1) \div w))
        IN <<c[3], c[2], c[1], 0>>]

\* Image.frombytes("RGBX", (width, height), data, "raw", "BGRX")
FromBytesBGRX(w, h, data) ==
    [mode |-> "RGBX", w |-> w, h |-> h,
     px |-> [p \in Coords(w, h) |->
                LET q == data[p[2] * w + p[1] + 1] IN <<q[3], q[2], q[1], q[4]>>]]

\* image.convert("RGB")
ConvertRGB(im) ==
    [mode |-> "RGB", w |-> im.w, h |-> im.h,
     px |-> [p \in Coords(im.w, im.h) |-> <<im.px[p][1], im.px[p][2], im.px[p][3]>>]]

\* image.convert("RGBA"): the alpha of an RGBA image is kept, any other
\* image becomes opaque.
ConvertRGBA(im) ==
    [mode |-> "RGBA", w |-> im.w, h |-> im.h,
     px |-> [p \in Coords(im.w, im.h) |->
                <<im.px[p][1], im.px[p][2], im.px[p][3],
                  IF im.mode = "RGBA" THEN im.px[p][4] ELSE 255>>]]

\* image.crop((x, y, x + width, y + height)), for a box inside the image.
Crop(im, x, y, w, h) ==
    [mode |-> im.mode, w |-> w, h |-> h,
     px |-> [p \in Coords(w, h) |-> im.px[<<p[1] + x, p[2] + y>>]]]

\* image.putalpha(mask) on an RGBA image.
PutAlpha(im, mask) ==
    [im EXCEPT !.px = [p \in Coords(im.w, im.h) |->
                          <<im.px[p][1], im.px[p][2], im.px[p][3], mask[p]>>]]

\* (b - a) x (p - a)
Cross(a, b, p) == (b[1] - a[1]) * (p[2] - a[2]) - (b[2] - a[2]) * (p[1] - a[1])
Between(u, v, t) == (u <= t /\ t <= v) \/ (v <= t /\ t <= u)
OnSegment(p, a, b) ==
    Cross(a, b, p) = 0 /\ Between(a[1], b[1], p[1]) /\ Between(a[2], b[2], p[2])
\* The point p against the triangle t.
OnEdge(p, t) == OnSegment(p, t[1], t[2]) \/ OnSegment(p, t[2], t[3]) \/ OnSegment(p, t[3], t[1])
StrictlyInside(p, t) ==
    LET d1 == Cross(t[1], t[2], p)
        d2 == Cross(t[2], t[3], p)
        d3 == Cross(t[3], t[1], p)
    IN (d1 > 0 /\ d2 > 0 /\ d3 > 0) \/ (d1 < 0 /\ d2 < 0 /\ d3 < 0)
StrictlyOutside(p, t) == ~StrictlyInside(p, t) /\ ~OnEdge(p, t)

\* Faulty variant of the translation below: the points are used as given.
NotTranslated(points, x, y) == points

\* [(px - x, py - y) for px, py in points]
LocalPoints(points, x, y) ==
    [k \in 1..Len(points) |-> <<points[k][1] - x, points[k][2] - y>>]

\* mask = Image.new("L", (width, height), 0), and on it
\* draw.polygon(local_points, fill=255) if there are at least 3 points.
\* Pillow fills the pixels inside the polygon and leaves those outside;
\* "edge" is what it does to the pixels on the outline.
PolygonMask(w, h, local_points, edge) ==
    [p \in Coords(w, h) |->
        IF Len(local_points) >= MinPolygon
        THEN IF StrictlyInside(p, local_points) THEN 255
             ELSE IF OnEdge(p, local_points) THEN edge ELSE 0
        ELSE 0]

\* image.save(buf, format="PNG"), then PixbufLoader("png"): the pixels are
\* kept, and the pixbuf has an alpha channel iff the image had one.
PilToPixbuf(im) ==
    [has_alpha |-> im.mode = "RGBA", w |-> im.w, h |-> im.h, px |-> im.px]

\* pixbuf.save_to_bufferv("png"), then Image.open(buf)
PixbufToPil(pb) ==
    [mode |-> IF pb.has_alpha THEN "RGBA" ELSE "RGB", w |-> pb.w, h |-> pb.h, px |-> pb.px]

\* pixbuf.new_subpixbuf(x, y, width, height)
SubPixbuf(pb, x, y, w, h) ==
    [has_alpha |-> pb.has_alpha, w |-> w, h |-> h,
     px |-> [p \in Coords(w, h) |-> pb.px[<<p[1] + x, p[2] + y>>]]]

\* self._load_uri(self._screenshot(interactive=False)) when the portal
\* answers: the file holds the whole screen, with an alpha channel or not.
PortalScreenshot(alpha) ==
    [has_alpha |-> alpha, w |-> ScreenSize, h |-> ScreenSize,
     px |-> [p \in Coords(ScreenSize, ScreenSize) |->
                LET c == Framebuffer(p[1], p[2])
                IN IF alpha THEN <<c[1], c[2], c[3], 255>> ELSE c]]

\* ------------------------------------------------------ the two backends
\* capture_region(x, y, width, height)
CaptureRegion(backend, alpha, x, y, w, h) ==
    IF backend = "X11ScreenCapture"
    THEN PilToPixbuf(ConvertRGB(FromBytesBGRX(w, h, XGetImage(x, y, w, h))))
    ELSE SubPixbuf(PortalScreenshot(alpha), x, y, w, h)

\* capture_fullscreen(): on X11 the region of the root window's geometry.
CaptureFullscreen(backend, alpha) ==
    IF backend = "X11ScreenCapture"
    THEN CaptureRegion(backend, alpha, 0, 0, ScreenSize, ScreenSize)
    ELSE PortalScreenshot(alpha)

\* capture_freeform(x, y, width, height, points)
CaptureFreeform(backend, alpha, edge, x, y, w, h, points) ==
    LET mask == PolygonMask(w, h, LocalPoints(points, x, y), edge)
    IN IF backend = "X11ScreenCapture"
       THEN PilToPixbuf(PutAlpha(
                ConvertRGBA(FromBytesBGRX(w, h, XGetImage(x, y, w, h))), mask))
       ELSE PilToPixbuf(PutAlpha(
                Crop(ConvertRGBA(PixbufToPil(PortalScreenshot(alpha))), x, y, w, h),
                mask))

WholeScreen == [x |-> 0, y |-> 0, width |-> ScreenSize, height |-> ScreenSize]

CaptureArgs ==
    [fn : {"capture_fullscreen"}, backend : Backends, box : {WholeScreen},
     points : {<<>>}]
    \cup [fn : {"capture_region"}, backend : Backends, box : Boxes, points : {<<>>}]
    \cup [fn : {"capture_freeform"}, backend : Backends, box : Boxes, points : Polygons]
    \cup [fn : {"get_screen_size"}, backend : Backends, box : {WholeScreen},
          points : {<<>>}]

\* Whether the portal's screenshot file has an alpha channel; the X11
\* backend reads no file.
Alphas(backend) == IF backend = "PortalScreenCapture" THEN BOOLEAN ELSE {FALSE}
\* What Pillow's polygon fill gives the pixels on the outline.
Edges == {0, 255}

CaptureFullscreenCall(alpha) ==
    /\ args.fn = "capture_fullscreen"
    /\ ret = NoRet
    /\ alpha \in Alphas(args.backend)
    /\ ret' = [fn |-> "capture_fullscreen", alpha |-> alpha,
               pixbuf |-> CaptureFullscreen(args.backend, alpha)]
    /\ UNCHANGED <<args, portal, pipewire_node_id, main_window, service, world, counts, fired>>

CaptureRegionCall(alpha) ==
    /\ args.fn = "capture_region"
    /\ ret = NoRet
    /\ alpha \in Alphas(args.backend)
    /\ ret' = [fn |-> "capture_region", alpha |-> alpha,
               pixbuf |-> CaptureRegion(args.backend, alpha, args.box.x, args.box.y,
                                        args.box.width, args.box.height)]
    /\ UNCHANGED <<args, portal, pipewire_node_id, main_window, service, world, counts, fired>>

CaptureFreeformCall(alpha, edge) ==
    /\ args.fn = "capture_freeform"
    /\ ret = NoRet
    /\ alpha \in Alphas(args.backend)
    /\ ret' = [fn |-> "capture_freeform", alpha |-> alpha,
               pixbuf |-> CaptureFreeform(args.backend, alpha, edge,
                                          args.box.x, args.box.y,
                                          args.box.width, args.box.height, args.points)]
    /\ UNCHANGED <<args, portal, pipewire_node_id, main_window, service, world, counts, fired>>

\* The size PortalScreenCapture.get_screen_size falls back to.
DefaultScreenSize == <<1920, 1080>>

\* get_screen_size(): X11 asks the root window for its geometry; the portal
\* backend takes a screenshot and measures it, inside try / except.
\* query_ok is whether the platform answers.
GetScreenSize(backend, query_ok) ==
    IF query_ok
    THEN [value |-> <<ScreenSize, ScreenSize>>, raised |-> FALSE]
    ELSE IF backend = "X11ScreenCapture"
         THEN [value |-> <<>>, raised |-> TRUE]
         ELSE [value |-> DefaultScreenSize, raised |-> FALSE]

GetScreenSizeCall(query_ok) ==
    /\ args.fn = "get_screen_size"
    /\ ret = NoRet
    /\ LET r == GetScreenSize(args.backend, query_ok)
       IN ret' = [fn |-> "get_screen_size", query_ok |-> query_ok,
                  value |-> r.value, raised |-> r.raised]
    /\ UNCHANGED <<args, portal, pipewire_node_id, main_window, service, world, counts, fired>>

CaptureInit ==
    /\ ServiceInit
    /\ portal = NoPortal
    /\ main_window = NoMainWindow
    /\ pipewire_node_id = None
    /\ args \in CaptureArgs
    /\ ret = NoRet

CaptureNext ==
    \/ \E a \in BOOLEAN : CaptureFullscreenCall(a)
    \/ \E a \in BOOLEAN : CaptureRegionCall(a)
    \/ \E a \in BOOLEAN, e \in Edges : CaptureFreeformCall(a, e)
    \/ \E ok \in BOOLEAN : GetScreenSizeCall(ok)

CaptureSpec == CaptureInit /\ [][CaptureNext]_vars

\* The colour of a pixel of a pixbuf, without its alpha.
Colour(q) == <<q[1], q[2], q[3]>>
\* The alpha of a pixel of a pixbuf: 255 where there is no alpha channel.
AlphaOf(pb, p) == IF pb.has_alpha THEN pb.px[p][4] ELSE 255
\* The box of the call and its pixels.
BoxCoords == Coords(args.box.width, args.box.height)
\* The unmasked capture of the call's box.
Unmasked == CaptureRegion(args.backend, ret.alpha, args.box.x, args.box.y,
                          args.box.width, args.box.height)
\* The call's polygon in the coordinates of the box.
LocalPolygon == [k \in 1..Len(args.points) |->
                    <<args.points[k][1] - args.box.x, args.points[k][2] - args.box.y>>]

\* C18: for a rectangle R inside the screen, capture_region(R) has the size
\* of R and each of its pixels equals the pixel of capture_fullscreen() at
\* the same place of R, on both backends.
C18_RegionIsCropOfFullscreen ==
    ret.fn = "capture_region"
    => LET full == CaptureFullscreen(args.backend, ret.alpha)
       IN /\ ret.pixbuf.w = args.box.width /\ ret.pixbuf.h = args.box.height
          /\ ret.pixbuf.has_alpha = full.has_alpha
          /\ DOMAIN ret.pixbuf.px = BoxCoords
          /\ \A p \in BoxCoords :
                ret.pixbuf.px[p] = full.px[<<p[1] + args.box.x, p[2] + args.box.y>>]

\* A region away from the origin and smaller than the screen was captured
\* on the X11 backend.
C18_Witness ==
    /\ ret.fn = "capture_region"
    /\ args.backend = "X11ScreenCapture"
    /\ args.box.x > 0 /\ args.box.y > 0
    /\ args.box.width > 1
    /\ ret.pixbuf.px[<<0, 0>>] = Framebuffer(args.box.x, args.box.y)

\* C19: for a polygon of fewer than 3 points capture_freeform returns a
\* fully opaque image with the colours of capture_region of the same box.
C19_DegeneratePolygonIsOpaqueBox ==
    ret.fn = "capture_freeform" /\ Len(args.points) < 3
    => \A p \in BoxCoords :
          /\ AlphaOf(ret.pixbuf, p) = 255
          /\ Colour(ret.pixbuf.px[p]) = Colour(Unmasked.px[p])

\* C20: for a polygon of at least 3 points, a pixel strictly outside the
\* polygon (taken in the box's coordinates) is fully transparent, and a
\* pixel strictly inside is fully opaque with the colour of the unmasked
\* capture of the box.
C20_MaskFollowsPolygon ==
    ret.fn = "capture_freeform" /\ Len(args.points) >= 3
    => \A p \in BoxCoords :
          /\ StrictlyOutside(p, LocalPolygon) => AlphaOf(ret.pixbuf, p) = 0
          /\ StrictlyInside(p, LocalPolygon)
               => /\ AlphaOf(ret.pixbuf, p) = 255
                  /\ Colour(ret.pixbuf.px[p]) = Colour(Unmasked.px[p])

\* A box away from the origin was captured through a triangle that has
\* pixels of the box strictly inside it and strictly outside it.
C20_Witness ==
    /\ ret.fn = "capture_freeform"
    /\ Len(args.points) = 3
    /\ args.box.x > 0
    /\ \E p \in BoxCoords : StrictlyInside(p, LocalPolygon) /\ AlphaOf(ret.pixbuf, p) = 255
    /\ \E p \in BoxCoords : StrictlyOutside(p, LocalPolygon) /\ AlphaOf(ret.pixbuf, p) = 0

\* C21: get_screen_size never lets an error out, on either backend: when
\* the platform query fails it returns a default screen size.
C21_ScreenSizeFailsSoft ==
    ret.fn = "get_screen_size"
    => /\ ~ret.raised
       /\ Len(ret.value) = 2
       /\ ~ret.query_ok => ret.value = DefaultScreenSize


\* ---------------------------------------------------------------------------
\* The portal backend's request protocol: screen_capture_portal.py,
\* _screenshot and start_screencast, one step per statement that touches the
\* bus or the main loop. The portal is the environment: it answers a request
\* it was sent with a Response signal, at any time or never, and a call to
\* it may fail.
\* ---------------------------------------------------------------------------
MaxCalls == 2
PortalFns == {"_screenshot", "start_screencast"}
Requests == {"Screenshot", "CreateSession", "SelectSources", "Start"}
\* The request whose Response the call subscribes to.
HeardRequest(fn) == IF fn = "_screenshot" THEN "Screenshot" ELSE "Start"
\* A Response signal: its code and whether its results carry what the handler
\* looks for ("uri", or a non-empty "streams").
NoResponse == [code |-> -1, payload |-> FALSE]
Responses == [code : {0, 1, 2}, payload : BOOLEAN]

\* on_response and on_start_response: the handler takes a result only from
\* a Response with code 0 that carries the key.
HandlerAcceptsOnCodeAlone(r) == r.code = 0
HandlerAccepts(r) == r.code = 0 /\ r.payload

\* The end of both functions: the result when the handler took one, an
\* error when it recorded one or the loop ended with nothing.
Outcome(received) ==
    IF received # NoResponse /\ HandlerAccepts(received) THEN "returned" ELSE "raised"

PortalFrame ==
    UNCHANGED <<args, ret, pipewire_node_id, main_window, service, world, counts, fired>>

\* The caller enters a portal function.
PortalBegin(fn) ==
    /\ portal.pc = "idle"
    /\ portal.id < MaxCalls
    /\ portal' = [portal EXCEPT !.fn = fn,
                                !.pc = IF fn = "_screenshot" THEN "subscribe"
                                       ELSE "create_session",
                                !.id = @ + 1,
                                !.sent = {}, !.unheard = {},
                                !.inbox = NoResponse, !.received = NoResponse,
                                !.outcome = "none"]
    /\ PortalFrame

\* An exception leaves the function from where it is.
Raised == [portal EXCEPT !.pc = "idle", !.outcome = "raised",
                         !.sent = {}, !.inbox = NoResponse]

\* call_sync of one request: it reaches the portal, or raises.
CallSync(pc, request, then, ok) ==
    /\ portal.pc = pc
    /\ portal' = IF ok THEN [portal EXCEPT !.pc = then, !.sent = @ \cup {request}]
                 ELSE Raised
    /\ PortalFrame

CreateSession(ok) == CallSync("create_session", "CreateSession", "select_sources", ok)

SelectSources(ok) == CallSync("select_sources", "SelectSources", "subscribe", ok)

\* signal_subscribe on the request path of the Screenshot or Start token.
SignalSubscribe ==
    /\ portal.pc = "subscribe"
    /\ portal' = [portal EXCEPT !.pc = "request", !.subs = @ \cup {portal.id}]
    /\ PortalFrame

Request(ok) == CallSync("request", HeardRequest(portal.fn), "run", ok)

\* timeout_add(30000, quit) and loop.run().
LoopRun ==
    /\ portal.pc = "run"
    /\ portal' = [portal EXCEPT !.pc = "loop", !.timeouts = @ \cup {portal.id}]
    /\ PortalFrame

\* The portal emits the Response of a request it was sent. The bus queues it
\* for the handler subscribed to its path; with no such subscription nobody
\* hears it.
PortalRespond(request, r) ==
    /\ request \in portal.sent
    /\ portal' = IF request = HeardRequest(portal.fn) /\ portal.id \in portal.subs
                 THEN [portal EXCEPT !.sent = @ \ {request}, !.inbox = r]
                 ELSE [portal EXCEPT !.sent = @ \ {request},
                                     !.unheard = @ \cup {request}]
    /\ PortalFrame

\* The running loop dispatches the queued Response: the handler keeps it and
\* quits the loop.
Dispatch ==
    /\ portal.pc = "loop"
    /\ portal.inbox # NoResponse
    /\ portal' = [portal EXCEPT !.pc = "unsubscribe", !.received = portal.inbox,
                                !.inbox = NoResponse]
    /\ PortalFrame

\* A 30 s timeout source fires in whichever loop is running, quits the loop
\* it was made for, and is removed.
TimeoutFire(i) ==
    /\ i \in portal.timeouts
    /\ portal.pc \in {"idle", "loop"}
    /\ portal' = [portal EXCEPT !.timeouts = @ \ {i},
                                !.pc = IF i = portal.id /\ portal.pc = "loop"
                                       THEN "unsubscribe" ELSE @]
    /\ PortalFrame

\* signal_unsubscribe, then the result or the error.
Finish ==
    /\ portal.pc = "unsubscribe"
    /\ portal' = [portal EXCEPT !.pc = "idle", !.subs = @ \ {portal.id},
                                !.sent = {}, !.inbox = NoResponse,
                                !.outcome = Outcome(portal.received)]
    /\ PortalFrame

PortalInit ==
    /\ ServiceInit
    /\ portal = NoPortal
    /\ main_window = NoMainWindow
    /\ pipewire_node_id = None
    /\ args = NoArgs
    /\ ret = NoRet

\* What the calling thread and the main loop do by themselves.
PortalStep ==
    \/ \E ok \in BOOLEAN : CreateSession(ok)
    \/ \E ok \in BOOLEAN : SelectSources(ok)
    \/ SignalSubscribe
    \/ \E ok \in BOOLEAN : Request(ok)
    \/ LoopRun
    \/ Dispatch
    \/ \E i \in 1..MaxCalls : TimeoutFire(i)
    \/ Finish

PortalNext ==
    \/ \E fn \in PortalFns : PortalBegin(fn)
    \/ \E ok \in BOOLEAN : CreateSession(ok)
    \/ \E ok \in BOOLEAN : SelectSources(ok)
    \/ SignalSubscribe
    \/ \E ok \in BOOLEAN : Request(ok)
    \/ LoopRun
    \/ \E request \in Requests, r \in Responses : PortalRespond(request, r)
    \/ Dispatch
    \/ \E i \in 1..MaxCalls : TimeoutFire(i)
    \/ Finish

\* The thread runs on and timeouts fire; the portal owes nothing.
PortalSpec == PortalInit /\ [][PortalNext]_vars /\ WF_vars(PortalStep)

PortalTypeOK ==
    /\ portal.fn \in PortalFns \cup {"none"}
    /\ portal.pc \in {"idle", "create_session", "select_sources", "subscribe",
                      "request", "run", "loop", "unsubscribe"}
    /\ portal.id \in 0..MaxCalls
    /\ portal.subs \subseteq 1..MaxCalls
    /\ portal.timeouts \subseteq 1..MaxCalls
    /\ portal.sent \subseteq Requests
    /\ portal.unheard \subseteq Requests
    /\ portal.inbox \in Responses \cup {NoResponse}
    /\ portal.received \in Responses \cup {NoResponse}
    /\ portal.outcome \in {"none", "returned", "raised"}

\* C22: when a portal call has returned or raised, no Response subscription
\* it made is still live, whichever way it ended.
C22_NoSubscriptionOutlivesCall ==
    portal.pc = "idle" => portal.subs = {}


\* C23: a portal screenshot call always ends, and it ends by returning the
\* URI exactly when a Response with code 0 carrying a uri was dispatched
\* before the timeout fired; in every other case it ends with an error.
C23_ScreenshotEnds ==
    /\ (portal.fn = "_screenshot" /\ portal.pc # "idle") ~> (portal.pc = "idle")
    /\ [](portal.fn = "_screenshot" /\ portal.pc = "idle"
          => /\ portal.outcome \in {"returned", "raised"}
             /\ portal.outcome = "returned"
                <=> (portal.received.code = 0 /\ portal.received.payload))

\* A screenshot call that got no Response and was ended by its timeout.
C23_Witness ==
    /\ portal.fn = "_screenshot"
    /\ portal.pc = "idle"
    /\ portal.outcome = "raised"
    /\ portal.received = NoResponse
    /\ portal.id \notin portal.subs
    /\ portal.id \notin portal.timeouts

\* C26: every request a portal call issues is issued with the subscription
\* to its Response already made, so no Response emitted during the call goes
\* unheard.
C26_SubscribedBeforeRequest ==
    [][/\ portal'.sent \ portal.sent # {} => portal.id \in portal.subs
       /\ portal'.unheard = {}]_vars


\* ---------------------------------------------------------------------------
\* The lifecycle graph of the recording state.
\* ---------------------------------------------------------------------------
\* The edges of the graph. A fresh start leaves Completed or Failed as it
\* leaves Idle: the return to Idle is implicit in the start call.
Lifecycle ==
    {<<"Idle", "Preparing">>, <<"Preparing", "Recording">>, <<"Preparing", "Failed">>,
     <<"Recording", "Stopping">>, <<"Stopping", "Completed">>, <<"Stopping", "Failed">>,
     <<"Completed", "Preparing">>, <<"Failed", "Preparing">>}
    \cup (RecordingState \X {"Idle"})

\* The states a step takes the service through: the state it starts in, then
\* every state _set_state announces during the step.
StateChanges(cbs) == SelectSeq(cbs, LAMBDA c : c.cb = "state_changed")
StateTrail == <<state>> \o [i \in 1..Len(StateChanges(fired')) |-> StateChanges(fired')[i].st]
Last(s) == s[Len(s)]

\* C24: every change of the recording state is an edge of the lifecycle
\* graph; Completed and Failed are never entered from Idle or Recording.
C24_StateFollowsLifecycle ==
    [][/\ Last(StateTrail) = state'
       /\ \A i \in 1..(Len(StateTrail) - 1) :
             /\ <<StateTrail[i], StateTrail[i + 1]>> \in Lifecycle
             /\ StateTrail[i + 1] \in {"Completed", "Failed"}
                => StateTrail[i] \notin {"Idle", "Recording"}]_vars

\* C25: when cancel_recording returns no encoder started by the service is
\* alive, whatever the state was at the call.
C25_CancelLeavesNoEncoder ==
    [][CancelRecording => AliveJobs' = {}]_vars


\* A display name without its screen suffix: what precedes the "." that
\* follows the last ":", or the whole name when there is no such ".".
ScreenSuffixStripped(d) ==
    LET colons == {i \in 1..Len(d) : d[i] = ":"}
        c == IF colons = {} THEN 0 ELSE CHOOSE i \in colons : \A k \in colons : k <= i
        dots == {i \in (c + 1)..Len(d) : d[i] = "."}
    IN  IF dots = {} THEN d
        ELSE SubSeq(d, 1, (CHOOSE i \in dots : \A k \in dots : i <= k) - 1)

\* C29: on the X11 grab path, for every DISPLAY and every region, the input
\* is the display name with only its trailing screen suffix removed (a host
\* part is kept whole), followed by +X,Y with X = max(0, x), Y = max(0, y).
C29_GrabInputIsDisplayPlusOffset ==
    Built /\ ret.cmd.format = "x11grab" /\ ret.region # <<>>
    => /\ ret.cmd.display = ScreenSuffixStripped(DisplayOf(args.DISPLAY))
       /\ ret.cmd.offset = <<IF args.x < 0 THEN 0 ELSE args.x,
                             IF args.y < 0 THEN 0 ELSE args.y>>


\* ---------------------------------------------------------------------------
\* set_pipewire_node and the recordings that follow it. ret is the command
\* line of the latest encoder launched, with the PipeWire nodes that the
\* encoders before it were given.
\* ---------------------------------------------------------------------------
NoCommand == [fn |-> "none", earlier |-> {}]
PipewireInput(r) ==
    IF r.fn # "none" /\ r.cmd.format = "pipewire" THEN {r.cmd.input} ELSE {}

\* self._pipewire_node_id = node_id
StoreNode(stored, id) == id

SetPipewireNode(id) ==
    /\ pipewire_node_id' = StoreNode(pipewire_node_id, id)
    /\ fired' = <<>>
    /\ UNCHANGED <<args, ret, portal, main_window, service, world, counts>>

\* The caller negotiates a screencast session before it stores a node:
\* every node id it passes is a new one.
FreshNodes ==
    CASE pipewire_node_id = None -> {"42"}
      [] pipewire_node_id = "42" -> {"43"}
      [] OTHER -> {}

\* A start call; when it launches an encoder, with the command line built
\* from the node stored at that moment.
NodeStart(outcome, t) ==
    /\ StartRecording(outcome, t)
    /\ ret' = IF state \notin StartIgnored /\ outcome = "ok"
              THEN [fn |-> "_build_ffmpeg_command", region |-> RegionOf(args),
                    cmd |-> BuildFfmpegCommand(args.display_server, pipewire_node_id,
                                               args.DISPLAY, RegionOf(args)),
                    earlier |-> ret.earlier \cup PipewireInput(ret)]
              ELSE ret
    /\ UNCHANGED <<args, portal, pipewire_node_id, main_window>>

NodeInit ==
    /\ ServiceInit
    /\ portal = NoPortal
    /\ main_window = NoMainWindow
    /\ pipewire_node_id = None
    /\ args \in {a \in CommandArgs : a.fn = "start_recording_fullscreen" /\ a.DISPLAY = Unset}
    /\ ret = NoCommand

NodeNext ==
    \/ \E id \in FreshNodes : SetPipewireNode(id)
    \/ \E o \in StartOutcomes, t \in Timestamps : NodeStart(o, t)
    \/ UNCHANGED call /\ StopRecording
    \/ UNCHANGED call /\ CancelRecording
    \/ UNCHANGED call /\ \E j \in Jobs, c \in ExitCodes : WorkerFinish(j, c)
    \/ UNCHANGED call /\ IdleRun

NodeSpec == NodeInit /\ [][NodeNext]_vars

\* C27: a PipeWire node is the input of at most one recording: an encoder
\* launched with a node as its input is the first one given that node.
C27_NodeUsedByOneRecording ==
    ret.fn = "_build_ffmpeg_command" /\ ret.cmd.format = "pipewire"
    => ret.cmd.input \notin ret.earlier

\* C28: set_pipewire_node changes the stored id and nothing else (state,
\* process, path, timer, duration, the running encoder and its command
\* line stay as they are); the id it stored is the input of the next
\* encoder launched on Wayland, and of that one only.
C28_SetNodeOnlyStoresForNextStart ==
    /\ [][\A id \in PipewireNodes :
            SetPipewireNode(id)
            => pipewire_node_id' = id /\ UNCHANGED <<service, world, counts, ret>>]_vars
    /\ [][\A o \in StartOutcomes, t \in Timestamps :
            NodeStart(o, t) /\ ret' # ret
            => /\ args.display_server = "wayland" /\ pipewire_node_id \in {"42", "43"}
                  => ret'.cmd.input = pipewire_node_id
               /\ ret'.cmd.format = "pipewire"
                  => ret'.cmd.input \notin ret'.earlier]_vars


\* ---------------------------------------------------------------------------
\* services/window_enum.py: WindowEnumerationService.get_windows. The X
\* server is the input: whether the connection and the root property can be
\* had, and for every id in _NET_CLIENT_LIST what the window answers.
\* ---------------------------------------------------------------------------
MaxWindows == 2
\* Display() raises; the root has no _NET_CLIENT_LIST; all works; all works
\* until d.close() raises.
Platforms == {"no_display", "no_property", "ok", "close_fails"}
\* One window: whether a request on it raises (the window is gone), its
\* _NET_WM_NAME and WM_NAME, its geometry (width, height) and the width of
\* its frame on each side.
XWindows == [fails : BOOLEAN, net_wm_name : {"", "N"}, wm_name : {"", "W"},
             geom : {<<1, 2>>, <<2, 1>>, <<2, 2>>}, frame : {0, 1}]
ClientLists == UNION {[1..n -> XWindows] : n \in 0..MaxWindows}

\* Lines 66-74: _NET_WM_NAME when it has a value, else WM_NAME.
TitleOf(w) == IF w.net_wm_name # "" THEN w.net_wm_name ELSE w.wm_name

\* Lines 48-98, one pass of the loop: the descriptors it appends.
WindowInfo(wid, w) ==
    IF w.fails THEN <<>>
    ELSE IF TitleOf(w) = "" THEN <<>>
    ELSE LET width == w.geom[1] + w.frame + w.frame
             height == w.geom[2] + w.frame + w.frame
         IN  IF width > 1 /\ height > 1
             THEN <<[window_id |-> wid, title |-> TitleOf(w),
                     width |-> width, height |-> height]>>
             ELSE <<>>

RECURSIVE Enumerate(_, _)
Enumerate(windows, wid) ==
    IF wid > Len(windows) THEN <<>>
    ELSE WindowInfo(wid, windows[wid]) \o Enumerate(windows, wid + 1)

\* _get_windows_xlib: the list, or the exception that leaves it.
GetWindowsXlib(platform, windows) ==
    CASE platform = "no_display" -> [raised |-> TRUE, value |-> <<>>]
      [] platform = "no_property" -> [raised |-> FALSE, value |-> <<>>]
      [] platform = "close_fails" -> [raised |-> TRUE, value |-> <<>>]
      [] OTHER -> [raised |-> FALSE, value |-> Enumerate(windows, 1)]

\* get_windows without its try / except.
Unguarded(r) == r
\* try: return ... except Exception: return []
Guarded(r) == IF r.raised THEN [raised |-> FALSE, value |-> <<>>] ELSE r

GetWindows ==
    /\ args.fn = "get_windows"
    /\ ret = NoRet
    /\ ret' = [fn |-> "get_windows"] @@ Guarded(GetWindowsXlib(args.platform, args.windows))
    /\ UNCHANGED <<args, portal, pipewire_node_id, main_window, service, world, counts, fired>>

WindowInit ==
    /\ ServiceInit
    /\ portal = NoPortal
    /\ main_window = NoMainWindow
    /\ pipewire_node_id = None
    /\ args \in [fn : {"get_windows"}, platform : Platforms, windows : ClientLists]
    /\ ret = NoRet

WindowNext == GetWindows

WindowSpec == WindowInit /\ [][WindowNext]_vars

\* The windows of the client list that answer, have a title and are more
\* than one pixel wide and high, in the order of the list.
Listable(w) ==
    /\ ~w.fails
    /\ w.net_wm_name # "" \/ w.wm_name # ""
    /\ w.geom[1] + 2 * w.frame > 1
    /\ w.geom[2] + 2 * w.frame > 1

\* C30: get_windows never raises; a failure of the platform gives the empty
\* list; a failure on one window leaves out that window only; every
\* descriptor returned has a title and a width and height above 1.
C30_GetWindowsFailsSoft ==
    ret.fn = "get_windows"
    => /\ ~ret.raised
       /\ args.platform # "ok" => ret.value = <<>>
       /\ args.platform = "ok"
          => /\ Len(ret.value) = Cardinality({i \in DOMAIN args.windows :
                                                 Listable(args.windows[i])})
             /\ \A i \in DOMAIN args.windows :
                   Listable(args.windows[i])
                   <=> \E k \in DOMAIN ret.value : ret.value[k].window_id = i
             /\ \A k \in DOMAIN ret.value :
                   /\ ret.value[k].title # ""
                   /\ ret.value[k].width > 1
                   /\ ret.value[k].height > 1
                   /\ \A m \in DOMAIN ret.value :
                         k < m => ret.value[k].window_id < ret.value[m].window_id

\* A list whose first window fails and whose second is returned.
C30_Witness ==
    /\ ret.fn = "get_windows"
    /\ args.platform = "ok"
    /\ Len(args.windows) = 2
    /\ args.windows[1].fails /\ args.windows[1].net_wm_name # ""
    /\ Len(ret.value) = 1
    /\ ret.value[1].window_id = 2


\* ---------------------------------------------------------------------------
\* Hit-testing: WindowEnumerationService.get_window_at_position and the
\* hover handler of the window overlay, over a list of window descriptors
\* (in enumeration order, the topmost last) and a point.
\* ---------------------------------------------------------------------------
MaxCoord == 5
Rects == [x : {0, 2}, y : {0, 1}, width : {2, 3}, height : {2}]
WindowLists == UNION {[1..n -> Rects] : n \in 0..MaxWindows}
NoWindow == 0

\* win.x <= x <= win.x + win.width and win.y <= y <= win.y + win.height
Contains(win, x, y) ==
    /\ win.x <= x /\ x <= win.x + win.width
    /\ win.y <= y /\ y <= win.y + win.height

\* A scan in enumeration order, the bottom window first.
RECURSIVE ScanForward(_, _, _, _)
ScanForward(windows, i, x, y) ==
    IF i < 1 THEN NoWindow
    ELSE IF Contains(windows[Len(windows) + 1 - i], x, y) THEN Len(windows) + 1 - i
    ELSE ScanForward(windows, i - 1, x, y)

\* for win in reversed(windows): the index of the first one that contains
\* the point, scanning from index i down, or NoWindow.
RECURSIVE ScanReversed(_, _, _, _)
ScanReversed(windows, i, x, y) ==
    IF i < 1 THEN NoWindow
    ELSE IF Contains(windows[i], x, y) THEN i
    ELSE ScanReversed(windows, i - 1, x, y)

\* get_window_at_position(x, y) on the list get_windows() returned.
GetWindowAtPosition ==
    /\ args.fn = "get_window_at_position"
    /\ ret = NoRet
    /\ ret' = [fn |-> args.fn,
               value |-> ScanReversed(args.windows, Len(args.windows), args.x, args.y)]
    /\ UNCHANGED <<args, portal, pipewire_node_id, main_window, service, world, counts, fired>>

\* _on_motion(x, y): the window left in self._hovered_window.
OnMotion ==
    /\ args.fn = "_on_motion"
    /\ ret = NoRet
    /\ ret' = [fn |-> args.fn,
               value |-> ScanReversed(args.windows, Len(args.windows), args.x, args.y)]
    /\ UNCHANGED <<args, portal, pipewire_node_id, main_window, service, world, counts, fired>>

HitInit ==
    /\ ServiceInit
    /\ portal = NoPortal
    /\ main_window = NoMainWindow
    /\ pipewire_node_id = None
    /\ args \in [fn : {"get_window_at_position", "_on_motion"}, windows : WindowLists,
                 x : 0..MaxCoord, y : 0..MaxCoord]
    /\ ret = NoRet

HitNext == GetWindowAtPosition \/ OnMotion

HitSpec == HitInit /\ [][HitNext]_vars

\* C31: get_window_at_position returns the window latest in the list whose
\* bounds contain the point, and none exactly when no window's bounds
\* contain it; the overlay's hover test gives the same window.
C31_TopmostWindowAtPoint ==
    ret.fn \in {"get_window_at_position", "_on_motion"}
    => LET hits == {i \in DOMAIN args.windows :
                       /\ args.windows[i].x <= args.x
                       /\ args.x <= args.windows[i].x + args.windows[i].width
                       /\ args.windows[i].y <= args.y
                       /\ args.y <= args.windows[i].y + args.windows[i].height}
       IN  /\ ret.value = NoWindow <=> hits = {}
           /\ ret.value # NoWindow
              => ret.value \in hits /\ \A i \in hits : i <= ret.value

\* Two windows contain the point and the later one is returned.
C31_Witness ==
    /\ ret.fn = "get_window_at_position"
    /\ Len(args.windows) = 2
    /\ Contains(args.windows[1], args.x, args.y)
    /\ Contains(args.windows[2], args.x, args.y)
    /\ args.windows[1] # args.windows[2]
    /\ ret.value = 2


\* C32: every accepted start allocates a fresh output path: no encoder
\* still alive has it as its output, and no file of an earlier job is
\* still there.
C32_FreshOutputPath ==
    [][StartAccepted /\ state' # "Preparing"
       => /\ \A j \in AliveJobs : jobPath[j] # current_path'
          /\ files[current_path'] = "absent"]_vars


\* C33: an incomplete recording leaves no file behind: when a job has
\* ended in Failed, or was cancelled, a file at its output path is
\* eventually deleted.
C33_IncompleteFileDeleted ==
    \A p \in Paths :
        (state \in {"Failed", "Idle"} /\ current_path = p /\ files[p] # "absent")
        ~> (files[p] = "absent" \/ state \notin {"Failed", "Idle"})


\* ---------------------------------------------------------------------------
\* The duration timer on its own: starts, stops, cancels, the stop worker's
\* callbacks and the ticks, with the duration counted further than in Spec.
\* ---------------------------------------------------------------------------
MaxDuration == 3

TickNext ==
    \/ UNCHANGED call /\ \E o \in StartOutcomes, t \in Timestamps : StartRecording(o, t)
    \/ UNCHANGED call /\ StopRecording
    \/ UNCHANGED call /\ CancelRecording
    \/ UNCHANGED call /\ \E t \in Jobs : TimerTickUpTo(t, MaxDuration)
    \/ UNCHANGED call /\ \E j \in Jobs, c \in ExitCodes : WorkerFinish(j, c)
    \/ UNCHANGED call /\ IdleRun

TickSpec == Init /\ [][TickNext]_vars

\* The duration-changed callbacks among cbs.
Durations(cbs) == SelectSeq(cbs, LAMBDA c : c.cb = "duration_changed")

\* C34: duration-changed is delivered only while the state is Recording;
\* an accepted start resets the duration to 0, every delivery reports one
\* tick more than the one before, the duration changes in no other way, and
\* after stop_recording or cancel_recording the state is not Recording, so
\* no tick is delivered.
C34_DurationTicks ==
    [][/\ \A i \in DOMAIN Durations(fired') :
             /\ state = "Recording" /\ state' = "Recording"
             /\ Durations(fired')[i].dur = duration + 1
             /\ duration' = duration + 1
       /\ StartAccepted /\ state' = "Recording" => duration' = 0
       /\ duration' # duration
          => Durations(fired') # <<>> \/ (StartAccepted /\ duration' = 0)
       /\ StopRecording \/ CancelRecording
          => state' # "Recording" /\ Durations(fired') = <<>>]_vars

\* The third tick of a recording has been delivered.
C34_Witness ==
    /\ state = "Recording"
    /\ duration = 3
    /\ fired = <<DurationCb(3)>>


\* C35: for every accepted region or window start the encoder invocation
\* restricts the capture to the requested region (with even width and
\* height), on the X11 grab input and on the PipeWire input alike.
C35_CaptureRestrictedToRegion ==
    Built /\ args.fn \in {"start_recording_region", "start_recording_window"}
    => /\ ret.cmd.video_size = <<ret.region[3], ret.region[4]>>
       /\ ret.cmd.offset = <<IF args.x < 0 THEN 0 ELSE args.x,
                             IF args.y < 0 THEN 0 ELSE args.y>>


\* C36: state-changed fires exactly when the stored state changes, with the
\* new value: each notification differs from the state before it, the last
\* one is the state the step leaves, and an accepted start that launches
\* the encoder notifies Preparing and then Recording.
C36_StateChangedOnChange ==
    [][/\ Last(StateTrail) = state'
       /\ \A i \in 1..(Len(StateTrail) - 1) : StateTrail[i] # StateTrail[i + 1]
       /\ StartAccepted /\ state' = "Recording"
          => StateChanges(fired') = <<StateCb("Preparing"), StateCb("Recording")>>]_vars

\* A start accepted in Failed has notified Preparing and Recording.
C36_Witness ==
    /\ state = "Recording"
    /\ fired = <<StateCb("Preparing"), StateCb("Recording")>>
    /\ \E j \in Jobs : nFailed[j] = 1


\* C37: between operations the service holds a process handle exactly when
\* the state is Recording, so stop_recording can stop every held encoder.
C37_HandleIffRecording ==
    process # NoProcess <=> state = "Recording"


\* ---------------------------------------------------------------------------
\* The main window (ui/main_window.py) and the application's actions
\* (app.py) over the recording service. The window's handlers run on the UI
\* thread; the service's callbacks (on_state_changed, on_recording_completed,
\* on_recording_failed) run the window's handlers inside the service call
\* that invokes them. The user acts on a window that is on the screen: the
\* main window while it is visible, a selection overlay while one is open,
\* the recording indicator while it exists. Launching the application again
\* activates the running instance, which presents its main window.
\* ---------------------------------------------------------------------------
\* The longest delay of the dropdown (AVAILABLE_DELAYS) that is tried.
MaxDelay == 2
\* Pending GLib timeouts of the countdown and open overlays, together.
MaxFlows == 2

AVAILABLE_DELAYS == 0..MaxDelay

\* models/capture_mode.py; the window and freeform modes go the way of the
\* rectangle modes (an overlay, then the capture of what was selected).
Modes == {"Rectangle Snip", "Full-screen Snip", "Rectangle Video", "Full-screen Video"}
is_video(m) == m \in {"Rectangle Video", "Full-screen Video"}
requires_rectangle_selection(m) == m \in {"Rectangle Snip", "Rectangle Video"}

\* MainWindow.__init__, presented by do_activate.
\*   active_overlay: self._active_overlay is not None
\*   overlays: the selection overlays that are open on the screen
\*   timeouts: the pending GLib timeouts of the countdown, each with the
\*             argument its callback _start_delay_countdown gets (0 for
\*             the 150 ms timeout, whose callback is _execute_capture)
\*   last_video: self._last_result.video_path
\*   quit: Gio.Application.quit() was called
MainWindowInit ==
    [fn |-> "MainWindow", visible |-> TRUE, selected_mode |-> "Rectangle Snip",
     delay_seconds |-> 0, recording_indicator |-> FALSE, active_overlay |-> FALSE,
     overlays |-> 0, timeouts |-> <<>>, is_preview_visible |-> FALSE,
     last_video |-> NoPath, quit |-> FALSE]

_hide_recording_indicator(w) == [w EXCEPT !.recording_indicator = FALSE]

_show_recording_indicator(w) ==
    [_hide_recording_indicator(w) EXCEPT !.recording_indicator = TRUE]

\* _on_recording_state_changed, _on_recording_duration_changed,
\* _on_recording_completed, _on_recording_failed
OnCallback(w, c) ==
    CASE c.cb = "state_changed" ->
            IF c.st = "Idle" THEN _hide_recording_indicator(w) ELSE w
      [] c.cb = "recording_completed" ->
            [_hide_recording_indicator(w) EXCEPT !.last_video = c.path,
                                                 !.visible = TRUE,
                                                 !.is_preview_visible = TRUE]
      [] c.cb = "recording_failed" ->
            [_hide_recording_indicator(w) EXCEPT !.visible = TRUE]
      [] OTHER -> w

\* The window after the service has invoked the callbacks cbs, in order.
RECURSIVE Deliver(_, _)
Deliver(w, cbs) ==
    IF cbs = <<>> THEN w ELSE Deliver(OnCallback(w, Head(cbs)), Tail(cbs))

\* _hide_preview: the preview is hidden and the temp video of the last
\* result is removed (it is never saved here: _video_saved stays False).
HidePreviewFiles(f, w) ==
    IF w.last_video # NoPath THEN [f EXCEPT ![w.last_video] = "absent"] ELSE f

\* Everything of the service and the world but the files.
UIServiceFrame ==
    UNCHANGED <<service, timers, njobs, jobPath, enc, worker, idleQueue, now, counts>>
UICallFrame == UNCHANGED <<args, ret, portal, pipewire_node_id>>

UIRunning == main_window.fn = "MainWindow" /\ ~main_window.quit

\* do_activate of the running instance: self._main_window.present()
Activate ==
    /\ UIRunning
    /\ main_window' = [main_window EXCEPT !.visible = TRUE]
    /\ fired' = <<>>
    /\ UICallFrame
    /\ UNCHANGED <<service, world, counts>>

\* _on_mode_changed / _on_delay_changed
OnModeChanged(m) ==
    /\ UIRunning /\ main_window.visible
    /\ main_window' = [main_window EXCEPT !.selected_mode = m]
    /\ fired' = <<>>
    /\ UICallFrame
    /\ UNCHANGED <<service, world, counts>>

OnDelayChanged(d) ==
    /\ UIRunning /\ main_window.visible
    /\ main_window' = [main_window EXCEPT !.delay_seconds = d]
    /\ fired' = <<>>
    /\ UICallFrame
    /\ UNCHANGED <<service, world, counts>>

\* The capture flows in flight: pending countdown timeouts and open overlays.
Flows(w) == Len(w.timeouts) + w.overlays

\* The guard of start_new_capture: when the call returns at once.
NewCaptureIgnored(s) == s = "Recording"

\* start_new_capture (New button or Ctrl+N in the main window)
StartNewCapture ==
    /\ UIRunning /\ main_window.visible
    /\ fired' = <<>>
    /\ UICallFrame
    /\ UIServiceFrame
    /\ IF NewCaptureIgnored(state)
       THEN UNCHANGED <<main_window, files, linked>>
       ELSE /\ Flows(main_window) < MaxFlows
            /\ files' = HidePreviewFiles(files, main_window)
            /\ linked' = {j \in linked : files'[jobPath[j]] # "absent"}
            /\ main_window' =
                 [main_window EXCEPT
                    !.is_preview_visible = FALSE,
                    !.visible = FALSE,
                    !.timeouts = Append(@, IF main_window.delay_seconds > 0
                                           THEN main_window.delay_seconds - 1
                                           ELSE 0)]

\* The window after a start_recording_* call made inside a try block: the
\* callbacks of the call, then the indicator, or the except branch when the
\* call raised (mkdir, outside the service's own try block).
AfterStart(w, raised, cbs) ==
    IF raised THEN [Deliver(w, cbs) EXCEPT !.visible = TRUE]
    ELSE _show_recording_indicator(Deliver(w, cbs))

\* A capture made by the handler that owns the window record w: a video
\* mode starts a recording, a screenshot mode asks the capture service
\* (captured: it returned a pixbuf; otherwise it raised).
Capture(w, outcome, t, captured) ==
    IF is_video(w.selected_mode)
    THEN /\ StartRecording(outcome, t)
         /\ main_window' = AfterStart(w, state \notin StartIgnored
                                         /\ outcome = "mkdir_fail", fired')
    ELSE /\ outcome = "ok" /\ t = now + 1
         /\ fired' = <<>>
         /\ UNCHANGED <<service, world, counts>>
         /\ main_window' = IF captured
                           THEN [w EXCEPT !.last_video = NoPath, !.visible = TRUE,
                                          !.is_preview_visible = TRUE]
                           ELSE [w EXCEPT !.visible = TRUE]

\* A countdown timeout fires: _start_delay_countdown(remaining), or
\* _execute_capture. An overlay is opened (or its constructor raises, in
\* the timeout callback), or the full screen is captured.
CountdownFire(i, outcome, t, captured) ==
    /\ UIRunning
    /\ i \in 1..Len(main_window.timeouts)
    /\ UICallFrame
    /\ LET remaining == main_window.timeouts[i]
           rest == [k \in 1..(Len(main_window.timeouts) - 1) |->
                       IF k < i THEN main_window.timeouts[k]
                       ELSE main_window.timeouts[k + 1]]
           w == [main_window EXCEPT !.timeouts = rest]
       IN IF remaining > 0
          THEN /\ outcome = "ok" /\ t = now + 1 /\ captured
               /\ main_window' = [w EXCEPT !.timeouts = Append(rest, remaining - 1)]
               /\ fired' = <<>>
               /\ UNCHANGED <<service, world, counts>>
          ELSE IF requires_rectangle_selection(w.selected_mode)
          THEN /\ outcome = "ok" /\ t = now + 1
               /\ main_window' = IF captured
                                 THEN [w EXCEPT !.active_overlay = TRUE,
                                                !.overlays = @ + 1]
                                 ELSE w
               /\ fired' = <<>>
               /\ UNCHANGED <<service, world, counts>>
          ELSE Capture(w, outcome, t, captured)

\* The user completes a selection in an open overlay: the overlay closes
\* itself and calls _on_rectangle_selected.
OverlaySelected(outcome, t, captured) ==
    /\ UIRunning
    /\ main_window.overlays > 0
    /\ UICallFrame
    /\ Capture([main_window EXCEPT !.active_overlay = FALSE, !.overlays = @ - 1],
               outcome, t, captured)

\* Escape in an open overlay: it closes itself and calls _on_overlay_cancelled.
OverlayCancelled ==
    /\ UIRunning
    /\ main_window.overlays > 0
    /\ main_window' = [main_window EXCEPT !.active_overlay = FALSE,
                                          !.overlays = @ - 1, !.visible = TRUE]
    /\ fired' = <<>>
    /\ UICallFrame
    /\ UNCHANGED <<service, world, counts>>

\* MainWindow.stop_recording: the indicator's Stop button or Escape key, or
\* Ctrl+Shift+Q in the main window.
StopPressed ==
    /\ UIRunning
    /\ main_window.visible \/ main_window.recording_indicator
    /\ UICallFrame
    /\ IF state = "Recording"
       THEN /\ StopRecording
            /\ main_window' = Deliver(main_window, fired')
       ELSE /\ fired' = <<>>
            /\ UNCHANGED <<main_window, service, world, counts>>

\* cancel_or_quit: the state in which it cancels the recording.
Cancels(s) == s = "Recording"

\* SniprApplication._on_quit (Escape in the main window): cancel_or_quit,
\* and self.quit() when it returned False.
QuitPressed ==
    /\ UIRunning /\ main_window.visible
    /\ UICallFrame
    /\ CASE main_window.active_overlay ->
              /\ main_window' = [main_window EXCEPT !.active_overlay = FALSE,
                                                    !.overlays = @ - 1,
                                                    !.visible = TRUE]
              /\ fired' = <<>>
              /\ UNCHANGED <<service, world, counts>>
         [] ~main_window.active_overlay /\ Cancels(state) ->
              /\ CancelRecording
              /\ main_window' = [_hide_recording_indicator(Deliver(main_window, fired'))
                                   EXCEPT !.visible = TRUE]
         [] ~main_window.active_overlay /\ ~Cancels(state)
            /\ main_window.is_preview_visible ->
              /\ files' = HidePreviewFiles(files, main_window)
              /\ linked' = {j \in linked : files'[jobPath[j]] # "absent"}
              /\ main_window' = [main_window EXCEPT !.is_preview_visible = FALSE]
              /\ fired' = <<>>
              /\ UIServiceFrame
         [] OTHER ->
              /\ main_window' = [main_window EXCEPT !.quit = TRUE]
              /\ fired' = <<>>
              /\ UNCHANGED <<service, world, counts>>

\* A stop worker's callback runs on the UI thread, and the window's
\* handlers in it.
UIIdleRun ==
    /\ UIRunning
    /\ IdleRun
    /\ main_window' = Deliver(main_window, fired')
    /\ UICallFrame

UIInit ==
    /\ ServiceInit
    /\ portal = NoPortal
    /\ pipewire_node_id = None
    /\ args = NoArgs
    /\ ret = NoRet
    /\ main_window = MainWindowInit

UINext ==
    \/ Activate
    \/ \E m \in Modes : OnModeChanged(m)
    \/ \E d \in AVAILABLE_DELAYS : OnDelayChanged(d)
    \/ StartNewCapture
    \/ \E i \in 1..MaxFlows, o \in StartOutcomes, t \in Timestamps, c \in BOOLEAN :
          CountdownFire(i, o, t, c)
    \/ \E o \in StartOutcomes, t \in Timestamps, c \in BOOLEAN : OverlaySelected(o, t, c)
    \/ OverlayCancelled
    \/ StopPressed
    \/ QuitPressed
    \/ UNCHANGED call /\ \E j \in Jobs : EncoderOpen(j)
    \/ UNCHANGED call /\ \E j \in Jobs : EncoderWrite(j)
    \/ UNCHANGED call /\ UIRunning /\ \E j \in Jobs, c \in ExitCodes : WorkerFinish(j, c)
    \/ UIIdleRun

UISpec == UIInit /\ [][UINext]_vars

UITypeOK ==
    /\ main_window.overlays \in 0..MaxFlows
    /\ Len(main_window.timeouts) \in 0..MaxFlows
    /\ main_window.active_overlay => main_window.overlays > 0
    /\ main_window.last_video \in Paths \cup {NoPath}


\* C38: in the main window, the floating recording indicator exists only
\* while the supervisor state is Recording or Stopping: it is not there
\* after a start that failed to launch, and it is closed when the recording
\* completes, fails or is cancelled.
C38_IndicatorOnlyWhileRecording ==
    main_window.recording_indicator => state \in {"Recording", "Stopping"}

\* C39: the application never quits while an encoder process it launched
\* is still alive.
C39_NoQuitWhileEncoderAlive ==
    main_window.quit => AliveJobs = {}

\* C40: at most one capture flow is in flight in the main window at any
\* time: there is never a second selection overlay or a second countdown
\* timeout while an overlay is open or a countdown is pending.
C40_OneCaptureFlow ==
    Flows(main_window) <= 1

====
